---- MODULE Spec2Model ----
(***************************************************************************)
(* Model of txtai's Embeddings class (src/python/txtai/embeddings.py):     *)
(* the build pipeline (index), the query pipeline (transform, search,      *)
(* similarity) and persistence (save, load).                               *)
(*                                                                         *)
(* Floats are fixed-point integers with Scale units per 1.0.  Vectors are  *)
(* tuples of such integers, matrices are sequences of vectors.  Python's   *)
(* None, dicts and library objects are records tagged by a "kind" field.   *)
(***************************************************************************)
EXTENDS Integers, Sequences, FiniteSets, TLC

\* ------------------------------------------------------------- bounds ----

\* Fixed-point resolution: Scale units represent 1.0.
Scale == 64

\* At most this many index calls are made in one run.
MaxIndexCalls == 2

\* Largest limit passed to search.
MaxLimit == 4

\* Largest corpus size considered by the structure-selection specification.
MaxDocs == 5002

\* -------------------------------------------------- program constants ----

\* embeddings.py:105  "IVF100,SQ8" if embeddings.shape[0] >= 5000
Threshold == 5000

\* embeddings.py:105  SQ8: eight-bit scalar quantizer, codes 0..255
Levels == 255

\* embeddings.py:209  label faiss returns for a result slot it could not fill
PadId == -1

\* embeddings.py:209  score faiss returns for a slot it could not fill
\* (-FLT_MAX for METRIC_INNER_PRODUCT), in fixed-point units
PadScore == -999999

\* ------------------------------------------------------ Python values ----

None == [kind |-> "None"]

\* Configurations (embeddings.py:36).  pca = 0 stands for "pca" absent: the
\* code only ever tests config.get("pca") for truth.
ConfigPlain == [kind |-> "dict", path |-> "vectors", pca |-> 0]
ConfigPca == [kind |-> "dict", path |-> "vectors", pca |-> 2]

IntId(n) == [int |-> TRUE, val |-> n]
StrId(n) == [int |-> FALSE, val |-> n]

\* ---------------------------------------------------------- numerics ----

Abs(x) == IF x < 0 THEN 0 - x ELSE x

\* Division truncating toward zero, as a rounding of the float quotient.
\* A zero divisor (a zero-norm vector, spec section 9) is outside the inputs
\* of this model; TLC reports it as an error if it is ever reached.
Quot(x, n) == IF x < 0 THEN 0 - ((0 - x) \div n) ELSE x \div n

RECURSIVE IsqrtIn(_, _, _)
IsqrtIn(n, lo, hi) ==
    IF lo >= hi THEN lo
    ELSE LET mid == (lo + hi + 1) \div 2
         IN IF mid * mid <= n THEN IsqrtIn(n, mid, hi) ELSE IsqrtIn(n, lo, mid - 1)

Isqrt(n) == IsqrtIn(n, 0, n)

RECURSIVE DotFrom(_, _, _)
DotFrom(a, b, i) ==
    IF i > Len(a) THEN 0 ELSE a[i] * b[i] + DotFrom(a, b, i + 1)

\* Raw integer inner product of two vectors (Scale * Scale units per 1.0).
Dot(a, b) == DotFrom(a, b, 1)

\* np.linalg.norm of one vector, in Scale units.
Norm(v) == Isqrt(Dot(v, v))

RECURSIVE SumFrom(_, _)
SumFrom(s, i) == IF i > Len(s) THEN 0 ELSE s[i] + SumFrom(s, i + 1)

Sum(s) == SumFrom(s, 1)

\* Sequence of f(i) for i in 1..n (concatenation makes TLC compute it once).
Tabulate(n, f(_)) == [i \in 1..n |-> f(i)] \o <<>>

\* ----------------------------------------- Vector Source (collaborator) ----

\* self.model.transform(document): the raw sentence vector of a text (one
\* of "a" to "f"), in Scale units.
VectorsTransform(text) ==
    LET raw == CASE text = "a" -> <<2, 2, 1>>
                 [] text = "b" -> <<-2, 2, 1>>
                 [] text = "c" -> <<0, 2, -2>>
                 [] text = "d" -> <<1, 2, 2>>
                 [] text = "e" -> <<1, -2, 2>>
                 [] OTHER -> <<-2, 0, 2>>
    IN Tabulate(Len(raw), LAMBDA i : raw[i] * Scale)

\* self.model.index(documents): the ids as supplied, the vector width, and
\* the content of the temporary stream file (one pickled vector per document).
VectorsIndex(documents) ==
    [ids |-> Tabulate(Len(documents), LAMBDA i : documents[i].id),
     dimensions |-> Len(VectorsTransform("a")),
     stream |-> Tabulate(Len(documents), LAMBDA i : VectorsTransform(documents[i].text))]

Doc(id, text) == [id |-> id, text |-> text]

\* Corpora handed to index.  CorpusA and CorpusB have different principal
\* directions; CorpusStr carries a string id.
CorpusA == <<Doc(IntId(1), "a"), Doc(IntId(2), "b"), Doc(IntId(3), "c")>>
CorpusB == <<Doc(IntId(4), "d"), Doc(IntId(5), "e"), Doc(IntId(6), "f")>>
CorpusStr == <<Doc(StrId(1), "a"), Doc(IntId(2), "b"), Doc(IntId(3), "c")>>
Corpora == {CorpusA, CorpusB, CorpusStr}

\* Query texts (each keeps a non-zero residue under either Reducer).
Queries == {"a", "d"}

\* ------------------------------------------------------------ Reducer ----

\* Column energy of a matrix: the diagonal of its Gram matrix.
Energy(m, j) == Sum(Tabulate(Len(m), LAMBDA i : m[i][j] * m[i][j]))

\* buildLSA: TruncatedSVD(n_components, random_state=0).fit(embeddings).
\* The corpora of this model have mutually orthogonal columns, so the Gram
\* matrix is diagonal and the top right-singular vectors are exactly the
\* coordinate axes of largest column energy (ties: lower axis first).
buildLSA(embeddings, components) ==
    LET d == Len(embeddings[1])
        energy == Tabulate(d, LAMBDA j : Energy(embeddings, j))
        Rank(j) == Cardinality({i \in 1..d :
                       \/ energy[i] > energy[j]
                       \/ energy[i] = energy[j] /\ i < j})
        AxisAt(r) == CHOOSE j \in 1..d : Rank(j) = r - 1
        Axis(j) == Tabulate(d, LAMBDA i : IF i = j THEN Scale ELSE 0)
    IN [kind |-> "svd",
        components_ |-> Tabulate(components, LAMBDA r : Axis(AxisAt(r)))]

\* factor[x] = embeddings[x].dot(pc.transpose())
Factor(v, pc) == Tabulate(Len(pc), LAMBDA j : Quot(Dot(v, pc[j]), Scale))

\* factor[x].dot(pc)
Reconstruct(factor, pc) ==
    Tabulate(Len(pc[1]),
             LAMBDA c : Quot(Sum(Tabulate(Len(pc), LAMBDA j : factor[j] * pc[j][c])), Scale))

VecSub(a, b) == Tabulate(Len(a), LAMBDA i : a[i] - b[i])

\* removePC on a matrix (embeddings.py:139-149): the n_components = 1 path
\* broadcasts factor * pc, otherwise the model is applied row by row.
removePC(lsa, embeddings) ==
    LET pc == lsa.components_
    IN IF Len(pc) = 1
       THEN Tabulate(Len(embeddings), LAMBDA x :
                Tabulate(Len(embeddings[x]), LAMBDA c :
                    embeddings[x][c] - Quot(Factor(embeddings[x], pc)[1] * pc[1][c], Scale)))
       ELSE Tabulate(Len(embeddings), LAMBDA x :
                LET factor == Factor(embeddings[x], pc)
                IN VecSub(embeddings[x], Reconstruct(factor, pc)))

\* removePC on a single embedding (embeddings.py:150-152), n_components > 1.
removePCVector(lsa, embedding) ==
    LET pc == lsa.components_
        factor == Factor(embedding, pc)
    IN VecSub(embedding, Reconstruct(factor, pc))

\* --------------------------------------------------------- Normalizer ----

\* embeddings /= np.linalg.norm(embeddings) for one vector.
normalizeVector(embedding) ==
    LET norm == Norm(embedding)
    IN Tabulate(Len(embedding), LAMBDA i : Quot(embedding[i] * Scale, norm))

\* Faulty variant: the quotient is bound to a new array, the caller's matrix stays
\* as it was.
normalizeCopy(embeddings) == embeddings

\* embeddings /= np.linalg.norm(embeddings, axis=1)[:, np.newaxis]
normalize(embeddings) ==
    Tabulate(Len(embeddings), LAMBDA x : normalizeVector(embeddings[x]))

\* ---------------------------------------------------- ANN Index (faiss) ----

\* Faulty variant: the boundary size itself still gets the flat structure.
IndexParamsAbove(n) == IF n > Threshold THEN "IVF100,SQ8" ELSE "IDMap,SQ8"

\* Structure selection (embeddings.py:105).
IndexParams(n) == IF n >= Threshold THEN "IVF100,SQ8" ELSE "IDMap,SQ8"

\* faiss.index_factory(d, params, METRIC_INNER_PRODUCT): an empty index whose
\* scalar quantizer is not trained yet.
IndexFactory(d, params) ==
    [kind |-> "index", params |-> params, d |-> d, is_trained |-> FALSE,
     vmin |-> <<>>, vdiff |-> <<>>, ids |-> <<>>, codes |-> <<>>]

RECURSIVE MinFrom(_, _)
MinFrom(s, i) ==
    IF i = Len(s) THEN s[i]
    ELSE LET r == MinFrom(s, i + 1) IN IF s[i] < r THEN s[i] ELSE r

RECURSIVE MaxFrom(_, _)
MaxFrom(s, i) ==
    IF i = Len(s) THEN s[i]
    ELSE LET r == MaxFrom(s, i + 1) IN IF s[i] > r THEN s[i] ELSE r

Column(m, j) == Tabulate(Len(m), LAMBDA i : m[i][j])

\* index.train(x): the SQ8 quantizer learns, per dimension, the minimum and
\* the range of the training vectors.
Train(index, x) ==
    [index EXCEPT !.is_trained = TRUE,
                  !.vmin = Tabulate(index.d, LAMBDA j : MinFrom(Column(x, j), 1)),
                  !.vdiff = Tabulate(index.d, LAMBDA j :
                                MaxFrom(Column(x, j), 1) - MinFrom(Column(x, j), 1))]

\* SQ8 encoding of one vector: each component to a code in 0..Levels.
Encode(index, v) ==
    Tabulate(Len(v), LAMBDA j :
        IF index.vdiff[j] = 0 THEN 0
        ELSE LET c == ((v[j] - index.vmin[j]) * Levels) \div index.vdiff[j]
             IN IF c < 0 THEN 0 ELSE IF c > Levels THEN Levels ELSE c)

\* SQ8 decoding: the centre of the code's cell.
Decode(index, code) ==
    Tabulate(Len(code), LAMBDA j :
        index.vmin[j] + ((2 * code[j] + 1) * index.vdiff[j]) \div (2 * Levels))

AllInt(ids) == \A i \in 1..Len(ids) : ids[i].int

\* index.add_with_ids(x, np.array(ids)): ok is FALSE when faiss rejects the
\* call (ids that are not 64-bit integers, an untrained index, a wrong width).
AddWithIds(index, x, ids) ==
    IF /\ AllInt(ids)
       /\ index.is_trained
       /\ \A i \in 1..Len(x) : Len(x[i]) = index.d
    THEN [ok |-> TRUE,
          index |-> [index EXCEPT
                       !.ids = index.ids \o Tabulate(Len(ids), LAMBDA i : ids[i].val),
                       !.codes = index.codes \o Tabulate(Len(x), LAMBDA i : Encode(index, x[i]))]]
    ELSE [ok |-> FALSE, index |-> index]

\* Inner product of the query with a stored vector, in Scale units.
Score(index, q, i) == Quot(Dot(q, Decode(index, index.codes[i])), Scale)

\* The position that comes first among those in S: highest score; equal
\* scores in storage order (implementation-defined in faiss, deterministic).
Nearest(scores, S) ==
    CHOOSE i \in S : \A j \in S :
        scores[i] > scores[j] \/ (scores[i] = scores[j] /\ i <= j)

RECURSIVE Ranked(_, _, _, _)
Ranked(ids, scores, S, k) ==
    IF k = 0 \/ S = {} THEN <<>>
    ELSE LET i == Nearest(scores, S)
         IN <<<<ids[i], scores[i]>>>> \o Ranked(ids, scores, S \ {i}, k - 1)

\* index.search(x, k) for one query followed by line 212's zip: always k
\* (id, score) pairs; faiss fills the slots it has no neighbour for with
\* label -1 and the lowest score.
IndexSearch(index, q, k) ==
    LET scores == Tabulate(Len(index.ids), LAMBDA i : Score(index, q, i))
        found == Ranked(index.ids, scores, 1..Len(index.ids), k)
    IN found \o Tabulate(k - Len(found), LAMBDA i : <<PadId, PadScore>>)

\* -------------------------------------------------------- Persistence ----

\* An absent file.
Missing == <<>>

RECURSIVE Flatten(_)
Flatten(m) == IF m = <<>> THEN <<>> ELSE Head(m) \o Flatten(Tail(m))

\* Rows of width d cut from a flat sequence.
Unflatten(s, d) == Tabulate(Len(s) \div d, LAMBDA i : SubSeq(s, (i - 1) * d + 1, i * d))

\* pickle.dump(self.config, handle)
PickleConfig(c) == <<"dict", "path", c.path, "pca", c.pca>>

\* pickle.load(handle) of a config file
UnpickleConfig(blob) == [kind |-> blob[1], path |-> blob[3], pca |-> blob[5]]

\* pickle.dump(self.lsa, handle)
PickleLsa(l) ==
    <<"svd", Len(l.components_), Len(l.components_[1])>> \o Flatten(l.components_)

\* pickle.load(handle) of an lsa file
UnpickleLsa(blob) ==
    [kind |-> blob[1], components_ |-> Unflatten(SubSeq(blob, 4, Len(blob)), blob[3])]

\* faiss.write_index(index, file)
WriteIndex(index) ==
    <<"faiss", index.params, index.d, index.is_trained, Len(index.vmin), Len(index.ids)>>
        \o index.vmin \o index.vdiff \o index.ids \o Flatten(index.codes)

\* faiss.read_index(file)
ReadIndex(blob) ==
    LET d == blob[3]
        q == blob[5]
        n == blob[6]
    IN [kind |-> "index", params |-> blob[2], d |-> d, is_trained |-> blob[4],
        vmin |-> SubSeq(blob, 7, 6 + q),
        vdiff |-> SubSeq(blob, 7 + q, 6 + 2 * q),
        ids |-> SubSeq(blob, 7 + 2 * q, 6 + 2 * q + n),
        codes |-> Unflatten(SubSeq(blob, 7 + 2 * q + n, Len(blob)), d)]

\* ---------------------------------------------- Orchestrator, as functions ----

IsNone(v) == v.kind = "None"

\* loadVectors(path): the Vector Source resolved from the configuration.
loadVectors(c) == [kind |-> "vectors", path |-> c.path]

\* transform (embeddings.py:179-190) given the Reducer held in self.lsa.
transform(l, text) ==
    LET embedding == VectorsTransform(text)
    IN normalizeVector(IF IsNone(l) THEN embedding ELSE removePCVector(l, embedding))

\* The Orchestrator a successful index(documents) leaves behind when it is
\* called on a newly constructed Orchestrator with configuration c
\* (embeddings.py:84-110, every step succeeding).
IndexResult(c, documents) ==
    LET vs == VectorsIndex(documents)
        l == IF c.pca > 0 THEN buildLSA(vs.stream, c.pca) ELSE None
        reduced == IF c.pca > 0 THEN removePC(l, vs.stream) ELSE vs.stream
        x == normalize(reduced)
        created == IndexFactory(vs.dimensions, IndexParams(Len(x)))
    IN [config |-> c, lsa |-> l, model |-> loadVectors(c),
        embeddings |-> AddWithIds(Train(created, x), x, vs.ids).index]

\* A newly constructed Orchestrator (embeddings.py:27-48).
Construct(c) ==
    [config |-> c, embeddings |-> None, lsa |-> None,
     model |-> IF IsNone(c) THEN None ELSE loadVectors(c)]

\* A directory without files.
EmptyDir == [config |-> Missing, embeddings |-> Missing, lsa |-> Missing]

\* save (embeddings.py:275-289) of Orchestrator o into directory dir: the
\* files afterwards, and whether the call returned normally.
\* faiss.write_index raises on None after the config file is written.
SaveDir(o, dir) ==
    IF IsNone(o.config) THEN [ok |-> TRUE, dir |-> dir]
    ELSE IF IsNone(o.embeddings)
    THEN [ok |-> FALSE, dir |-> [dir EXCEPT !.config = PickleConfig(o.config)]]
    ELSE [ok |-> TRUE,
          dir |-> [config |-> PickleConfig(o.config),
                   embeddings |-> WriteIndex(o.embeddings),
                   lsa |-> IF IsNone(o.lsa) THEN dir.lsa ELSE PickleLsa(o.lsa)]]

\* load (embeddings.py:247-265) of directory dir into Orchestrator o: the
\* Orchestrator afterwards, and whether the call returned normally.  Each
\* open of an absent file raises, keeping the assignments made before it.
LoadDir(o, dir) ==
    IF dir.config = Missing THEN [ok |-> FALSE, o |-> o]
    ELSE LET c == UnpickleConfig(dir.config)
             o1 == [o EXCEPT !.config = c]
         IN IF dir.embeddings = Missing THEN [ok |-> FALSE, o |-> o1]
            ELSE LET o2 == [o1 EXCEPT !.embeddings = ReadIndex(dir.embeddings)]
                 IN IF c.pca > 0 /\ dir.lsa = Missing THEN [ok |-> FALSE, o |-> o2]
                    ELSE [ok |-> TRUE,
                          o |-> [o2 EXCEPT
                                   !.lsa = IF c.pca > 0 THEN UnpickleLsa(dir.lsa) ELSE o2.lsa,
                                   !.model = loadVectors(c)]]

\* search (embeddings.py:205-212) on Orchestrator o.
search(o, query, limit) ==
    LET embedding == transform(o.lsa, query)
    IN IndexSearch(o.embeddings, embedding, limit)

\* similarity (embeddings.py:226-230).
similarity(l, query, documents) ==
    LET q == transform(l, query)
    IN Tabulate(Len(documents), LAMBDA i : Quot(Dot(q, transform(l, documents[i])), Scale))

\* -------------------------------------------------------------- state ----

VARIABLES
    config,      \* self.config
    embeddings,  \* self.embeddings: the ANN Index, or None
    lsa,         \* self.lsa: the Reducer, or None
    model,       \* self.model: the Vector Source, or None
    fs,          \* the files of each model directory
    tmp,         \* the temporary stream files that exist
    pc,          \* position inside index, "idle" between calls
    frame,       \* locals of the running index call
    calls,       \* index calls made so far
    ret,         \* the last completed call: name, outcome, returned value
    fitted,      \* history: number of Reducer fits (buildLSA calls)
    log,         \* history: steps of the latest index call, with their matrix
    before,      \* history: ANN Index and Reducer when the latest index call began
    indexed,     \* history: number of index calls that returned normally
    raised,      \* history: some call has raised so far
    built,       \* history: Reducer applied to the vectors held in self.embeddings
    fsBuilt,     \* history: the same for each directory's embeddings file
    sN,          \* structure selection: corpus size
    sPc,         \* structure selection: position in embeddings.py:105-110
    sIndex,      \* structure selection: the index created
    sTotal       \* structure selection: vectors added

vars == <<config, embeddings, lsa, model, fs, tmp, pc, frame, calls, ret,
          fitted, log, before, indexed, raised, built, fsBuilt, sN, sPc, sIndex,
          sTotal>>

orchestrator == <<config, embeddings, lsa, model>>
past == <<fitted, log, before, indexed, built, fsBuilt>>
history == <<past, raised>>
structure == <<sN, sPc, sIndex, sTotal>>

Self == [config |-> config, embeddings |-> embeddings, lsa |-> lsa, model |-> model]

Paths == {"d1"}

NoFrame == [documents |-> <<>>, ids |-> <<>>, dimensions |-> 0, stream |-> 0, content |-> <<>>,
            embeddings |-> <<>>, applied |-> None]

Returned(op, ok, value) == [op |-> op, ok |-> ok, value |-> value]

\* Directories that exist before the run: none, or one that an Orchestrator
\* with configuration c saved after indexing CorpusA.
SavedBy(c) == SaveDir(IndexResult(c, CorpusA), EmptyDir).dir

InitDirs ==
    {[dir |-> EmptyDir, applied |-> None],
     [dir |-> SavedBy(ConfigPlain), applied |-> None],
     [dir |-> SavedBy(ConfigPca), applied |-> IndexResult(ConfigPca, CorpusA).lsa]}

Init ==
    /\ \E c \in {None, ConfigPlain, ConfigPca} :
         /\ config = Construct(c).config
         /\ embeddings = Construct(c).embeddings
         /\ lsa = Construct(c).lsa
         /\ model = Construct(c).model
    /\ \E d \in [Paths -> InitDirs] :
         /\ fs = [p \in Paths |-> d[p].dir]
         /\ fsBuilt = [p \in Paths |-> d[p].applied]
    /\ tmp = {}
    /\ pc = "idle"
    /\ frame = NoFrame
    /\ calls = 0
    /\ ret = Returned("init", TRUE, <<>>)
    /\ fitted = 0
    /\ log = <<>>
    /\ before = [embeddings |-> None, lsa |-> None]
    /\ indexed = 0
    /\ raised = FALSE
    /\ built = None
    /\ sN = 0
    /\ sPc = "idle"
    /\ sIndex = None
    /\ sTotal = 0

Logged(step, x) == Append(log, [step |-> step, x |-> x])

\* ------------------------------------------------------ index, by steps ----

\* embeddings.py:84  ids, dimensions, stream = self.model.index(documents)
\* On an Orchestrator without Vector Source the call raises at once.
IndexCall(documents) ==
    /\ pc = "idle"
    /\ calls < MaxIndexCalls
    /\ calls' = calls + 1
    /\ log' = <<>>
    /\ before' = [embeddings |-> embeddings, lsa |-> lsa]
    /\ IF IsNone(model)
       THEN /\ ret' = Returned("index", FALSE, <<>>)
            /\ raised' = TRUE
            /\ UNCHANGED <<pc, frame, tmp>>
       ELSE /\ pc' = "drain"
            /\ LET vs == VectorsIndex(documents)
               IN frame' = [NoFrame EXCEPT !.documents = documents,
                                           !.ids = vs.ids,
                                           !.dimensions = vs.dimensions,
                                           !.stream = calls + 1,
                                           !.content = vs.stream]
            /\ tmp' = tmp \cup {calls + 1}
            /\ UNCHANGED <<ret, raised>>
    /\ UNCHANGED <<orchestrator, fs, fitted, indexed, built, fsBuilt, structure>>

\* embeddings.py:87-93  read len(ids) vectors back from the stream, then
\* remove the file.
Drain ==
    /\ pc = "drain"
    /\ frame' = [frame EXCEPT !.embeddings = frame.content]
    /\ tmp' = tmp \ {frame.stream}
    /\ pc' = "lsa"
    /\ log' = Logged("drain", frame.content)
    /\ UNCHANGED <<orchestrator, fs, calls, ret, fitted, before, indexed, raised, built,
                   fsBuilt, structure>>

\* embeddings.py:87-90  allocating the matrix, opening the stream or reading
\* a vector raises (no memory, an I/O error, a damaged stream): the call ends
\* before line 93.
DrainRaises ==
    /\ pc = "drain"
    /\ pc' = "idle"
    /\ frame' = NoFrame
    /\ ret' = Returned("index", FALSE, <<>>)
    /\ raised' = TRUE
    /\ UNCHANGED <<orchestrator, fs, tmp, calls, fitted, log, before, indexed, built,
                   fsBuilt, structure>>

\* embeddings.py:96-97  self.lsa = self.buildLSA(embeddings, self.config["pca"])
BuildLSA ==
    /\ pc = "lsa"
    /\ IF config.pca > 0
       THEN /\ lsa' = buildLSA(frame.embeddings, config.pca)
            /\ fitted' = fitted + 1
            /\ pc' = "removePC"
            /\ log' = Logged("fit", frame.embeddings)
       ELSE /\ pc' = "normalize"
            /\ UNCHANGED <<lsa, fitted, log>>
    /\ UNCHANGED <<config, embeddings, model, fs, tmp, frame, calls, ret,
                   before, indexed, raised, built, fsBuilt, structure>>

\* embeddings.py:98  self.removePC(embeddings)
RemovePC ==
    /\ pc = "removePC"
    /\ frame' = [frame EXCEPT !.embeddings = removePC(lsa, frame.embeddings),
                              !.applied = lsa]
    /\ log' = Logged("apply", frame'.embeddings)
    /\ pc' = "normalize"
    /\ UNCHANGED <<orchestrator, fs, tmp, calls, ret, fitted, before, indexed, raised,
                   built, fsBuilt, structure>>

\* embeddings.py:101  self.normalize(embeddings)
Normalize ==
    /\ pc = "normalize"
    /\ frame' = [frame EXCEPT !.embeddings = normalize(frame.embeddings)]
    /\ log' = Logged("normalize", frame'.embeddings)
    /\ pc' = "create"
    /\ UNCHANGED <<orchestrator, fs, tmp, calls, ret, fitted, before, indexed, raised,
                   built, fsBuilt, structure>>

\* embeddings.py:105-106  self.embeddings = faiss.index_factory(...)
Create ==
    /\ pc = "create"
    /\ embeddings' = IndexFactory(frame.dimensions, IndexParams(Len(frame.embeddings)))
    /\ built' = None
    /\ log' = Logged("create", <<>>)
    /\ pc' = "train"
    /\ UNCHANGED <<config, lsa, model, fs, tmp, frame, calls, ret, fitted, before,
                   indexed, raised, fsBuilt, structure>>

\* embeddings.py:109  self.embeddings.train(embeddings)
TrainIndex ==
    /\ pc = "train"
    /\ embeddings' = Train(embeddings, frame.embeddings)
    /\ log' = Logged("train", frame.embeddings)
    /\ pc' = "add"
    /\ UNCHANGED <<config, lsa, model, fs, tmp, frame, calls, ret, fitted, before,
                   indexed, raised, built, fsBuilt, structure>>

\* embeddings.py:110  self.embeddings.add_with_ids(embeddings, np.array(ids))
Add ==
    /\ pc = "add"
    /\ LET r == AddWithIds(embeddings, frame.embeddings, frame.ids)
       IN /\ embeddings' = r.index
          /\ ret' = [op |-> "index", ok |-> r.ok, value |-> <<>>,
                     documents |-> frame.documents]
          /\ indexed' = IF r.ok THEN indexed + 1 ELSE indexed
          /\ raised' = (raised \/ ~r.ok)
          /\ built' = IF r.ok THEN frame.applied ELSE built
          /\ log' = Logged("add", frame.embeddings)
    /\ pc' = "idle"
    /\ frame' = NoFrame
    /\ UNCHANGED <<config, lsa, model, fs, tmp, calls, fitted, before, fsBuilt, structure>>

\* ------------------------------------------------------------ queries ----

\* Faulty variant: transform fits the Reducer again before applying it.
TransformRefits(text) ==
    /\ pc = "idle"
    /\ ret' = IF IsNone(model)
              THEN Returned("transform", FALSE, <<>>)
              ELSE [op |-> "transform", ok |-> TRUE, value |-> transform(lsa, text),
                    text |-> text, applied |-> lsa]
    /\ fitted' = IF IsNone(lsa) THEN fitted ELSE fitted + 1
    /\ raised' = (raised \/ ~ret'.ok)
    /\ UNCHANGED <<orchestrator, fs, tmp, pc, frame, calls, log, before, indexed, built,
                   fsBuilt, structure>>

\* transform(document), embeddings.py:168-190.  Without Vector Source the
\* call raises.
Transform(text) ==
    /\ pc = "idle"
    /\ ret' = IF IsNone(model)
              THEN Returned("transform", FALSE, <<>>)
              ELSE [op |-> "transform", ok |-> TRUE, value |-> transform(lsa, text),
                    text |-> text, applied |-> lsa]
    /\ raised' = (raised \/ ~ret'.ok)
    /\ UNCHANGED <<orchestrator, fs, tmp, pc, frame, calls, past, structure>>

\* search(query, limit), embeddings.py:192-212.  Raises without Vector
\* Source or without ANN Index.  Line 208's nprobe is a parameter of the
\* partitioned structure only and changes nothing on the flat one.
Search(query, limit) ==
    /\ pc = "idle"
    /\ ret' = IF IsNone(model) \/ IsNone(embeddings)
              THEN Returned("search", FALSE, <<>>)
              ELSE [op |-> "search", ok |-> TRUE, value |-> search(Self, query, limit),
                    query |-> query, limit |-> limit]
    /\ raised' = (raised \/ ~ret'.ok)
    /\ UNCHANGED <<orchestrator, fs, tmp, pc, frame, calls, past, structure>>

\* similarity(query, documents), embeddings.py:214-230.
Similarity(query, documents) ==
    /\ pc = "idle"
    /\ ret' = IF IsNone(model)
              THEN Returned("similarity", FALSE, <<>>)
              ELSE Returned("similarity", TRUE, similarity(lsa, query, documents))
    /\ raised' = (raised \/ ~ret'.ok)
    /\ UNCHANGED <<orchestrator, fs, tmp, pc, frame, calls, past, structure>>

\* -------------------------------------------------------- persistence ----

\* save(path), embeddings.py:267-293.
Save(path) ==
    /\ pc = "idle"
    /\ LET r == SaveDir(Self, fs[path])
       IN /\ fs' = [fs EXCEPT ![path] = r.dir]
          /\ fsBuilt' = [fsBuilt EXCEPT
                           ![path] = IF r.dir.embeddings = fs[path].embeddings /\ ~r.ok
                                     THEN fsBuilt[path] ELSE
                                     IF IsNone(config) THEN fsBuilt[path] ELSE built]
          /\ ret' = [op |-> "save", ok |-> r.ok, value |-> <<>>, path |-> path,
                     wrote |-> ~IsNone(config) /\ r.ok,
                     wroteLsa |-> ~IsNone(config) /\ r.ok /\ ~IsNone(lsa)]
    /\ raised' = (raised \/ ~ret'.ok)
    /\ UNCHANGED <<orchestrator, tmp, pc, frame, calls, fitted, log, before, indexed,
                   built, structure>>

\* load(path), embeddings.py:232-265.
Load(path) ==
    /\ pc = "idle"
    /\ LET r == LoadDir(Self, fs[path])
       IN /\ config' = r.o.config
          /\ embeddings' = r.o.embeddings
          /\ lsa' = r.o.lsa
          /\ model' = r.o.model
          /\ built' = IF fs[path].config # Missing /\ fs[path].embeddings # Missing
                      THEN fsBuilt[path] ELSE built
          /\ ret' = [op |-> "load", ok |-> r.ok, value |-> <<>>, path |-> path]
    /\ raised' = (raised \/ ~ret'.ok)
    /\ UNCHANGED <<fs, tmp, pc, frame, calls, fitted, log, before, indexed, fsBuilt,
                   structure>>

\* ------------------------------------------------------ specification ----

Limits == 1..MaxLimit

DocumentLists == {<<"a", "d">>}

Next ==
    \/ \E documents \in Corpora : IndexCall(documents)
    \/ Drain
    \/ DrainRaises
    \/ BuildLSA
    \/ RemovePC
    \/ Normalize
    \/ Create
    \/ TrainIndex
    \/ Add
    \/ \E text \in Queries : Transform(text)
    \/ \E query \in Queries, limit \in Limits : Search(query, limit)
    \/ \E query \in Queries, documents \in DocumentLists : Similarity(query, documents)
    \/ \E path \in Paths : Save(path)
    \/ \E path \in Paths : Load(path)

Spec == Init /\ [][Next]_vars

\* ------------------------------------- structure selection, by size only ----

\* Lines 105-110 of index on a corpus given by its number of vectors: which
\* structure is created, that it is trained, and that the n vectors go to it.
SInit ==
    /\ config = None /\ embeddings = None /\ lsa = None /\ model = None
    /\ fs = [p \in Paths |-> EmptyDir]
    /\ fsBuilt = [p \in Paths |-> None]
    /\ tmp = {} /\ pc = "idle" /\ frame = NoFrame /\ calls = 0
    /\ ret = Returned("init", TRUE, <<>>)
    /\ fitted = 0 /\ log = <<>> /\ built = None /\ indexed = 0 /\ raised = FALSE
    /\ before = [embeddings |-> None, lsa |-> None]
    /\ sN \in 0..MaxDocs
    /\ sPc = "create"
    /\ sIndex = None
    /\ sTotal = 0

SCreate ==
    /\ sPc = "create"
    /\ sIndex' = IndexFactory(Len(VectorsTransform("a")), IndexParams(sN))
    /\ sPc' = "train"
    /\ UNCHANGED <<orchestrator, fs, tmp, pc, frame, calls, ret, history, sN, sTotal>>

STrain ==
    /\ sPc = "train"
    /\ sIndex' = [sIndex EXCEPT !.is_trained = TRUE]
    /\ sPc' = "add"
    /\ UNCHANGED <<orchestrator, fs, tmp, pc, frame, calls, ret, history, sN, sTotal>>

SAdd ==
    /\ sPc = "add"
    /\ sIndex.is_trained
    /\ sTotal' = sTotal + sN
    /\ sPc' = "done"
    /\ UNCHANGED <<orchestrator, fs, tmp, pc, frame, calls, ret, history, sN, sIndex>>

SNext == SCreate \/ STrain \/ SAdd

SpecStructure == SInit /\ [][SNext]_vars

\* ------------------------------------------------------------- claims ----

Idle == pc = "idle"

Built == ~IsNone(embeddings) /\ Len(embeddings.ids) > 0

\* C1.  An index call that fails on an Orchestrator holding an ANN Index
\* leaves that ANN Index and the Reducer exactly as they were when the call
\* began.
C1_FailedIndexChangesNothing ==
    (Idle /\ ret.op = "index" /\ ~ret.ok /\ ~IsNone(before.embeddings)) =>
        (embeddings = before.embeddings /\ lsa = before.lsa)

\* C2.  After calls that all returned normally, when transform returns, the
\* Reducer it applied to the query (none, if it applied none) is the Reducer
\* that was applied to the vectors held in the current ANN Index when they
\* were built.
C2_QueryReducerIsBuildReducer ==
    (~raised /\ ret.op = "transform" /\ ret.ok /\ Built) => ret.applied = built

\* C3.  After calls that all returned normally, the last a save of a built
\* index: loading the saved directory into a newly constructed Orchestrator
\* gives the same Configuration, Reducer and ANN Index, and the same search
\* results for every query and limit.
C3_SaveLoadRoundTrip ==
    (~raised /\ Idle /\ ret.op = "save" /\ ret.wrote /\ Built) =>
        LET loaded == LoadDir(Construct(None), fs[ret.path])
        IN /\ loaded.ok
           /\ loaded.o.config = config
           /\ loaded.o.lsa = lsa
           /\ loaded.o.embeddings = embeddings
           /\ \A query \in Queries, limit \in Limits :
                search(loaded.o, query, limit) = search(Self, query, limit)

\* C4.  After calls that all returned normally, a save writes the lsa file
\* if and only if pca is set in the Configuration it writes.
C4_LsaWrittenIffPca ==
    (~raised /\ ret.op = "save" /\ ret.wrote) => (ret.wroteLsa <=> config.pca > 0)

Min(a, b) == IF a < b THEN a ELSE b

\* C5 (number and origin of the results).  search on a built index returns
\* exactly min(limit, corpusSize) pairs, each with an id stored in the index.
C5_ExactlyMinResults ==
    (ret.op = "search" /\ ret.ok /\ Built) =>
        /\ Len(ret.value) = Min(ret.limit, Len(embeddings.ids))
        /\ \A i \in 1..Len(ret.value) :
             \E j \in 1..Len(embeddings.ids) : ret.value[i][1] = embeddings.ids[j]

\* C6.  After calls that all returned normally, two of them index calls, the
\* ANN Index and the Reducer are what a single index call on the second
\* corpus produces on a newly constructed Orchestrator with the same
\* Configuration, and the stored ids are the ids supplied.
C6_SecondIndexReplacesAll ==
    (~raised /\ Idle /\ ret.op = "index" /\ ret.ok /\ indexed >= 2) =>
        LET single == IndexResult(config, ret.documents)
        IN /\ embeddings = single.embeddings
           /\ lsa = single.lsa
           /\ \A i \in 1..Len(ret.documents) : embeddings.ids[i] = ret.documents[i].id.val

\* C7, as stated.  The Reducer is fitted at most once in the lifetime of an
\* Orchestrator.
C7_FittedAtMostOnce == fitted <= 1

Fits(l) == Cardinality({i \in 1..Len(l) : l[i].step = "fit"})

\* C7, amended.  The Reducer is fitted only by index: exactly once in each
\* index call that has drained its stream with pca configured, at most once
\* per call, and by no other step or call.
C7_FittedOncePerIndexCall ==
    [][/\ fitted' # fitted => (pc = "lsa" /\ config.pca > 0 /\ fitted' = fitted + 1)
       /\ (pc = "lsa" /\ config.pca > 0) => fitted' = fitted + 1
       /\ Fits(log') <= 1]_vars

C7_Witness == fitted = 2 /\ Idle /\ ret.op = "search" /\ ret.ok

\* C8.  The structure created depends on the corpus size alone: flat and
\* id-keyed below 5000 vectors, 100 partitions from 5000 on; it is the one
\* that is trained and that all n vectors are added to.
C8_StructureBySize ==
    /\ sPc \in {"train", "add", "done"} =>
         sIndex.params = (IF sN < 5000 THEN "IDMap,SQ8" ELSE "IVF100,SQ8")
    /\ sPc \in {"add", "done"} => sIndex.is_trained
    /\ sPc = "done" => sTotal = sN

C8_Witness == sPc = "done" /\ sN = 5000 /\ sIndex.params = "IVF100,SQ8" /\ sTotal = 5000

\* C9.  No stream file remains once an index call has ended, however it ended.
C9_StreamReleased == Idle => tmp = {}

StepsWith(pca) ==
    IF pca THEN <<"drain", "fit", "apply", "normalize", "create", "train", "add">>
    ELSE <<"drain", "normalize", "create", "train", "add">>

UnitNorm(v) == Abs(Dot(v, v) - Scale * Scale) <= 4 * Scale

\* The Reducer has been applied to v: no component along any principal row.
Reduced(v) == \A j \in 1..Len(lsa.components_) : Dot(v, lsa.components_[j]) = 0

Final(x) ==
    \A i \in 1..Len(x) : UnitNorm(x[i]) /\ (config.pca > 0 => Reduced(x[i]))

\* C10.  The steps of an index call happen in the order drain, fit and apply
\* (with pca), normalize, create, train, add; train and add are handed the
\* same matrix, whose rows are reduced (with pca) and of unit norm.
C10_BuildOrder ==
    ((~Idle \/ ret.op = "index") /\ ~IsNone(config)) =>
        /\ Len(log) <= Len(StepsWith(config.pca > 0))
        /\ \A i \in 1..Len(log) :
             /\ log[i].step = StepsWith(config.pca > 0)[i]
             /\ log[i].step \in {"train", "add"} => Final(log[i].x)
             /\ log[i].step = "add" => log[i].x = log[i - 1].x

C10_Witness ==
    Idle /\ ret.op = "index" /\ ret.ok /\ config.pca > 0 /\ Len(log) = 7

====
